---- MODULE Spec2Model ----
(***************************************************************************)
(* Model of src/emailVerification.js: the emailVerificationLambda handler. *)
(* One invocation runs at a time in an execution environment; every await  *)
(* of the handler is a step boundary, and the response of the awaited      *)
(* external call (Secrets Manager, SendGrid, MySQL) is chosen by the       *)
(* environment.  cloudwatch.putMetricData is callback style and is never   *)
(* awaited: its callback is a separate action.                             *)
(***************************************************************************)
EXTENDS Integers, Sequences, FiniteSets, TLC

\* Number of invocations (deliveries and redeliveries) explored.
MaxInvocations == 2

\* The JavaScript value undefined (an unset variable, an absent field).
Undefined == "undefined"

\* Identifiers carried by events; only ExistingUsers have a row in `user`.
UserIds == {"42", "43"}
ExistingUsers == {"42"}
Emails == {"a@b.com"}
\* Activation links as character sequences; the second holds HTML-special
\* characters, so that escaping would change it.
Links == { <<"x", "/", "4", "2">>, <<"x", "?", "a", "&", "b">> }

VARIABLES
  env,         \* process.env, fixed for the life of the process
  event,       \* the SNS event of the current invocation
  pc,          \* position of the handler
  apiKey,      \* sgMail's module-level API key (set by sgMail.setApiKey)
  calls,       \* external calls of this invocation, metrics excluded
  resp,        \* the responses to them, in order
  sent,        \* messages handed to sgMail.send in this invocation
  execParams,  \* parameter arrays bound by connection.execute
  emitted,     \* metric names handed to cloudwatch.putMetricData
  cb,          \* state of each putMetricData callback of this invocation
  connection,  \* the local `connection` of logEmailSent
  pendingErr,  \* error in flight while the finally block awaits end()
  outcome,     \* what the handler returned or threw
  userTable,   \* the rows of table `user`
  invocations, \* invocations started so far (the clock of NOW())
  sendsOk,     \* per userId: sends that succeeded, over all invocations
  updatesOk,   \* per userId: UPDATEs that changed a row, over all invocations
  deliveries,  \* deliveries of the current event (1 + redeliveries)
  eventSends,  \* sends that succeeded for the current event, over its deliveries
  prev         \* summary of the first run of a pair (SpecPair only)

vars == << env, event, pc, apiKey, calls, resp, sent, execParams, emitted, cb,
           connection, pendingErr, outcome, userTable, invocations, sendsOk,
           updatesOk, deliveries, eventSends, prev >>

----------------------------------------------------------------------------
\* Constants and pure parts of the program.

EMAIL_FROM == "noreply@em2722.demo.csyeproject.me"

requiredEnvVars ==
  << "DB_HOST", "DB_NAME", "DB_USER", "EMAIL_CREDENTIALS_SECRET_NAME",
     "REGION", "DB_CREDENTIALS_SECRET_NAME" >>

\* The names of process.env this model gives a value.
EnvNames ==
  { "DB_HOST", "DB_NAME", "DB_USER", "EMAIL_CREDENTIALS_SECRET_NAME",
    "REGION", "DB_CREDENTIALS_SECRET_NAME" }

\* !process.env[varName]: unset and the empty string are both falsy.
Falsy(v) == v = Undefined \/ v = ""

\* Mutant: the loop tests `=== undefined` and lets the empty string pass.
FirstUnset_onlyUndefined(e) ==
  LET bad == { i \in 1..Len(requiredEnvVars) : e[requiredEnvVars[i]] = Undefined }
  IN  IF bad = {} THEN "none"
      ELSE requiredEnvVars[CHOOSE i \in bad : \A j \in bad : i <= j]

\* The first required variable the validation loop finds unset, or "none".
FirstUnset(e) ==
  LET bad == { i \in 1..Len(requiredEnvVars) : Falsy(e[requiredEnvVars[i]]) }
  IN  IF bad = {} THEN "none"
      ELSE requiredEnvVars[CHOOSE i \in bad : \A j \in bad : i <= j]

\* Mutant: the link is HTML-escaped before it is put into the href.
VerificationMsg_htmlEscaped(email, activationLink) ==
  [ to      |-> email,
    from    |-> EMAIL_FROM,
    subject |-> "Verify Your Email",
    text    |-> <<"Please verify your email using this link: ">>
                  \o activationLink,
    html    |-> <<"<p>Click <a href=\"">>
                  \o [ i \in 1..Len(activationLink) |->
                         IF activationLink[i] = "&" THEN "&amp;"
                         ELSE activationLink[i] ]
                  \o <<"\">here</a> to verify your email.</p>">> ]

\* The message object built by sendVerificationEmail: the template literals
\* splice the link in as it is.
VerificationMsg(email, activationLink) ==
  [ to      |-> email,
    from    |-> EMAIL_FROM,
    subject |-> "Verify Your Email",
    text    |-> <<"Please verify your email using this link: ">>
                  \o activationLink,
    html    |-> <<"<p>Click <a href=\"">> \o activationLink
                  \o <<"\">here</a> to verify your email.</p>">> ]

\* result.affectedRows of the UPDATE ... WHERE id = ? with parameter userId.
AffectedRows(table, userId) ==
  IF userId \in DOMAIN table THEN 1 ELSE 0

\* The table after the UPDATE: email_sent_at = NOW(), email_status = 'sent'.
UpdateUser(table, userId, now) ==
  [ u \in DOMAIN table |->
      IF u = userId THEN [email_status |-> "sent", email_sent_at |-> now]
      ELSE table[u] ]

\* Mutant: the affectedRows check is missing.
ExecuteError_noRowCheck(r, rows) ==
  IF r = "throw" THEN "ExecuteError" ELSE "none"

\* Lines 148-152: the error, if any, that awaiting execute leaves in the try
\* block: the rejection of execute, or "No user found" on zero rows.
ExecuteError(r, rows) ==
  IF r = "throw" THEN "ExecuteError"
  ELSE IF rows = 0 THEN "NoUserFound" ELSE "none"

----------------------------------------------------------------------------
\* Inputs.

AllSet == [ v \in EnvNames |-> "x" ]
Configs ==
  {AllSet} \cup { [AllSet EXCEPT ![v] = b] : v \in EnvNames, b \in {Undefined, ""} }

NoMessage == [email |-> Undefined, userId |-> Undefined, activationLink |-> <<>>]
NoEvent == [parses |-> FALSE, message |-> NoMessage]
\* An event whose Message does not parse, or one that parses to an object
\* with email and activationLink and, possibly, userId.
Events ==
  { NoEvent } \cup
  { [parses |-> TRUE,
     message |-> [email |-> e, userId |-> u, activationLink |-> l]] :
       e \in Emails, u \in UserIds \cup {Undefined}, l \in Links }

\* What an await on secretsManager.getSecretValue(...).promise() followed by
\* JSON.parse(data.SecretString) can produce: the call rejects; SecretString
\* does not parse; it parses to null; it parses to an object.
SecretResults == {"reject", "badjson", "null", "object"}

NoPrev ==
  [ valid |-> FALSE, calls |-> <<>>, resp |-> <<>>, outcome |-> "none",
    cb |-> <<>> ]

----------------------------------------------------------------------------
\* logMetric: hands the data to cloudwatch.putMetricData and returns at
\* once; the callbacks are left pending.
logMetric(names) ==
  /\ emitted' = emitted \o names
  /\ cb' = cb \o [ i \in 1..Len(names) |-> "pending" ]

\* The catch block of exports.handler: GeneralError metric, rethrow.
HandlerCatch(error, metricsBefore) ==
  /\ logMetric(metricsBefore \o <<"GeneralError">>)
  /\ outcome' = error
  /\ pc' = "done"

\* Lines 93-103: logEmailSent has settled with `err` ("none": it resolved).
HandlerFinish(err, metricsBefore) ==
  IF err /= "none"
  THEN HandlerCatch(err, metricsBefore)
  ELSE /\ logMetric(metricsBefore \o <<"EmailsSent">>)
       /\ outcome' = "Success"
       /\ pc' = "done"

\* Mutant: connection.end() is the last statement of the try block, not in
\* a finally block.
LogEmailSentExit_endOnlyOnSuccess(err, metrics) ==
  IF connection' /= Undefined /\ err = "none"
  THEN /\ calls' = Append(calls, "end")
       /\ pendingErr' = err
       /\ logMetric(metrics)
       /\ pc' = "awaitEnd"
       /\ UNCHANGED outcome
  ELSE /\ HandlerFinish(err, metrics)
       /\ UNCHANGED << calls, pendingErr >>

\* Mutant: the catch block of logEmailSent logs the error and does not
\* rethrow it.
LogEmailSentExit_swallows(err, metrics) ==
  IF connection' /= Undefined
  THEN /\ calls' = Append(calls, "end")
       /\ pendingErr' = "none"
       /\ logMetric(metrics)
       /\ pc' = "awaitEnd"
       /\ UNCHANGED outcome
  ELSE /\ HandlerFinish("none", metrics)
       /\ UNCHANGED << calls, pendingErr >>

\* Lines 155-163: how the try block of logEmailSent is left, with `err` in
\* flight ("none": normally) and `metrics` logged by its catch block.  The
\* finally block calls connection.end() when connection is set and awaits
\* it.  The action that uses this sets connection'.
LogEmailSentExit(err, metrics) ==
  IF connection' /= Undefined
  THEN /\ calls' = Append(calls, "end")
       /\ pendingErr' = err
       /\ logMetric(metrics)
       /\ pc' = "awaitEnd"
       /\ UNCHANGED outcome
  ELSE /\ HandlerFinish(err, metrics)
       /\ UNCHANGED << calls, pendingErr >>

Init ==
  /\ env \in Configs
  /\ event = NoEvent
  /\ pc = "idle"
  /\ apiKey = "unset"
  /\ calls = <<>> /\ resp = <<>> /\ sent = <<>> /\ execParams = <<>>
  /\ emitted = <<>> /\ cb = <<>>
  /\ connection = Undefined
  /\ pendingErr = "none"
  /\ outcome = "none"
  /\ userTable = [ u \in ExistingUsers |->
                     [email_status |-> "unsent", email_sent_at |-> 0] ]
  /\ invocations = 0
  /\ sendsOk = [ u \in UserIds |-> 0 ]
  /\ updatesOk = [ u \in UserIds |-> 0 ]
  /\ deliveries = 0
  /\ eventSends = 0
  /\ prev = NoPrev

\* Line 60: the handler is entered with event ev; nothing of the previous
\* invocation is kept but the module-level clients.
Enter(ev) ==
  /\ invocations' = invocations + 1
  /\ event' = ev
  /\ pc' = "start"
  /\ calls' = <<>> /\ resp' = <<>> /\ sent' = <<>> /\ execParams' = <<>>
  /\ emitted' = <<>> /\ cb' = <<>>
  /\ connection' = Undefined
  /\ pendingErr' = "none"
  /\ outcome' = "none"
  /\ UNCHANGED << env, apiKey, userTable, sendsOk, updatesOk >>

\* The platform delivers a new event.
Deliver(ev) ==
  /\ pc \in {"idle", "done"}
  /\ invocations < MaxInvocations
  /\ Enter(ev)
  /\ deliveries' = 1
  /\ eventSends' = 0
  /\ UNCHANGED prev

\* The platform delivers the same event again after the handler threw.
Redeliver ==
  /\ pc = "done"
  /\ outcome /= "Success"
  /\ invocations < MaxInvocations
  /\ Enter(event)
  /\ deliveries' = deliveries + 1
  /\ UNCHANGED << eventSends, prev >>

\* Lines 61-79: validate the environment, then ask for the email secret.
ValidateEnv ==
  /\ pc = "start"
  /\ IF FirstUnset(env) /= "none"
     THEN /\ HandlerCatch("EnvNotSet", <<>>)
          /\ UNCHANGED << calls >>
     ELSE /\ calls' = Append(calls, "getSecret.email")
          /\ pc' = "awaitEmailSecret"
          /\ UNCHANGED << emitted, cb, outcome >>
  /\ UNCHANGED << env, event, apiKey, resp, sent, execParams, connection,
                  pendingErr, userTable, invocations, sendsOk, updatesOk,
                  deliveries, eventSends, prev >>

\* Mutant: an event whose user row is already marked 'sent' is answered
\* with Success without sending again.
EmailSecretReturns_dedupes(r) ==
  /\ pc = "awaitEmailSecret"
  /\ resp' = Append(resp, r)
  /\ CASE r \in {"reject", "badjson"} ->
            /\ HandlerCatch("UnableToRetrieveSecret", <<"SecretsManagerError">>)
            /\ UNCHANGED << apiKey, calls, sent >>
       [] r = "null" ->
            /\ HandlerCatch("TypeError", <<>>)
            /\ UNCHANGED << apiKey, calls, sent >>
       [] r = "object" /\ ~event.parses ->
            /\ apiKey' = "set"
            /\ HandlerCatch("MalformedPayload", <<>>)
            /\ UNCHANGED << calls, sent >>
       [] r = "object" /\ event.parses ->
            /\ apiKey' = "set"
            /\ IF /\ event.message.userId \in DOMAIN userTable
                  /\ userTable[event.message.userId].email_status = "sent"
               THEN /\ HandlerFinish("none", <<>>)
                    /\ UNCHANGED << calls, sent >>
               ELSE /\ sent' = Append(sent, VerificationMsg(event.message.email,
                                               event.message.activationLink))
                    /\ calls' = Append(calls, "send")
                    /\ pc' = "awaitSend"
                    /\ UNCHANGED << emitted, cb, outcome >>
  /\ UNCHANGED << env, event, execParams, connection, pendingErr, userTable,
                  invocations, sendsOk, updatesOk, deliveries, eventSends, prev >>

\* Lines 79-90, 109-117: the email secret arrives; set the API key, parse
\* the SNS message and hand the verification mail to sgMail.send.
EmailSecretReturns(r) ==
  /\ pc = "awaitEmailSecret"
  /\ resp' = Append(resp, r)
  /\ CASE r \in {"reject", "badjson"} ->
            \* getSecretValue's catch: SecretsManagerError, throw
            /\ HandlerCatch("UnableToRetrieveSecret", <<"SecretsManagerError">>)
            /\ UNCHANGED << apiKey, calls, sent >>
       [] r = "null" ->
            \* emailSecrets.sendgrid_api_key on null: TypeError
            /\ HandlerCatch("TypeError", <<>>)
            /\ UNCHANGED << apiKey, calls, sent >>
       [] r = "object" /\ ~event.parses ->
            \* JSON.parse(event.Records[0].Sns.Message) throws
            /\ apiKey' = "set"
            /\ HandlerCatch("MalformedPayload", <<>>)
            /\ UNCHANGED << calls, sent >>
       [] r = "object" /\ event.parses ->
            /\ apiKey' = "set"
            /\ sent' = Append(sent, VerificationMsg(event.message.email,
                                                    event.message.activationLink))
            /\ calls' = Append(calls, "send")
            /\ pc' = "awaitSend"
            /\ UNCHANGED << emitted, cb, outcome >>
  /\ UNCHANGED << env, event, execParams, connection, pendingErr, userTable,
                  invocations, sendsOk, updatesOk, deliveries, eventSends, prev >>

\* Mutant: the catch block of sendVerificationEmail logs the failure and
\* does not rethrow it.
SendReturns_swallowsFailure(r) ==
  /\ pc = "awaitSend"
  /\ resp' = Append(resp, r)
  /\ IF r = "fail"
     THEN /\ logMetric(<<"SendGridError">>)
          /\ UNCHANGED << sendsOk, eventSends, outcome >>
     ELSE /\ sendsOk' = IF event.message.userId \in UserIds
                        THEN [sendsOk EXCEPT ![event.message.userId] = @ + 1]
                        ELSE sendsOk
          /\ eventSends' = eventSends + 1
          /\ UNCHANGED << emitted, cb, outcome >>
  /\ calls' = Append(calls, "getSecret.db")
  /\ pc' = "awaitDbSecret"
  /\ UNCHANGED << env, event, apiKey, sent, execParams, connection, pendingErr,
                  userTable, invocations, updatesOk, deliveries, prev >>

\* Mutant: the database password is taken from process.env and the
\* connection is opened right after the send.
SendReturns_passwordFromEnv(r) ==
  /\ pc = "awaitSend"
  /\ resp' = Append(resp, r)
  /\ IF r = "fail"
     THEN /\ HandlerCatch("FailedToSendEmail", <<"SendGridError">>)
          /\ UNCHANGED << calls, sendsOk, eventSends >>
     ELSE /\ sendsOk' = IF event.message.userId \in UserIds
                        THEN [sendsOk EXCEPT ![event.message.userId] = @ + 1]
                        ELSE sendsOk
          /\ eventSends' = eventSends + 1
          /\ calls' = Append(calls, "connect")
          /\ pc' = "awaitConnect"
          /\ UNCHANGED << emitted, cb, outcome >>
  /\ UNCHANGED << env, event, apiKey, sent, execParams, connection, pendingErr,
                  userTable, invocations, updatesOk, deliveries, prev >>

\* Lines 117-123 and 93, 130: sgMail.send settles; on success logEmailSent
\* starts by asking for the database secret.
SendReturns(r) ==
  /\ pc = "awaitSend"
  /\ resp' = Append(resp, r)
  /\ IF r = "fail"
     THEN /\ HandlerCatch("FailedToSendEmail", <<"SendGridError">>)
          /\ UNCHANGED << calls, sendsOk, eventSends >>
     ELSE /\ sendsOk' = IF event.message.userId \in UserIds
                        THEN [sendsOk EXCEPT ![event.message.userId] = @ + 1]
                        ELSE sendsOk
          /\ eventSends' = eventSends + 1
          /\ calls' = Append(calls, "getSecret.db")
          /\ pc' = "awaitDbSecret"
          /\ UNCHANGED << emitted, cb, outcome >>
  /\ UNCHANGED << env, event, apiKey, sent, execParams, connection, pendingErr,
                  userTable, invocations, updatesOk, deliveries, prev >>

\* Lines 130-140: the database secret arrives; open the connection.
DbSecretReturns(r) ==
  /\ pc = "awaitDbSecret"
  /\ resp' = Append(resp, r)
  /\ UNCHANGED connection
  /\ CASE r \in {"reject", "badjson"} ->
            LogEmailSentExit("UnableToRetrieveSecret",
                             <<"SecretsManagerError", "DatabaseError">>)
       [] r = "null" ->
            \* secrets.password on null: TypeError inside logEmailSent's try
            LogEmailSentExit("TypeError", <<"DatabaseError">>)
       [] r = "object" ->
            /\ calls' = Append(calls, "connect")
            /\ pc' = "awaitConnect"
            /\ UNCHANGED << emitted, cb, outcome, pendingErr >>
  /\ UNCHANGED << env, event, apiKey, sent, execParams, userTable, invocations,
                  sendsOk, updatesOk, deliveries, eventSends, prev >>

\* Lines 135-148: mysql.createConnection settles; on success the UPDATE is
\* executed with [userId] bound.
ConnectReturns(r) ==
  /\ pc = "awaitConnect"
  /\ resp' = Append(resp, r)
  /\ IF r = "fail"
     THEN /\ UNCHANGED << connection, execParams >>
          /\ LogEmailSentExit("ConnectError", <<"DatabaseError">>)
     ELSE /\ connection' = "open"
          /\ calls' = Append(calls, "execute")
          /\ execParams' = Append(execParams, <<event.message.userId>>)
          /\ pc' = "awaitExecute"
          /\ UNCHANGED << emitted, cb, outcome, pendingErr >>
  /\ UNCHANGED << env, event, apiKey, sent, userTable, invocations, sendsOk,
                  updatesOk, deliveries, eventSends, prev >>

\* Lines 148-162: connection.execute settles ("throw": it rejects, which is
\* also what an undefined bind parameter gives; "result": it resolves with
\* affectedRows).  The catch block logs DatabaseError and rethrows; the
\* finally block runs on every path.
ExecuteReturns(r) ==
  LET userId == event.message.userId
      rows   == AffectedRows(userTable, userId)
      err    == ExecuteError(r, rows)
  IN
  /\ pc = "awaitExecute"
  /\ resp' = Append(resp, IF r = "throw" THEN "throw"
                          ELSE IF rows = 0 THEN "rows0" ELSE "rows")
  /\ IF r = "result" /\ rows /= 0
     THEN /\ userTable' = UpdateUser(userTable, userId, invocations)
          /\ updatesOk' = [updatesOk EXCEPT ![userId] = @ + 1]
     ELSE UNCHANGED << userTable, updatesOk >>
  /\ UNCHANGED connection
  /\ LogEmailSentExit(err, IF err = "none" THEN <<>> ELSE <<"DatabaseError">>)
  /\ UNCHANGED << env, event, apiKey, sent, execParams, invocations, sendsOk,
                  deliveries, eventSends, prev >>

\* Mutant: the EmailsSent metric is awaited and its failure is thrown.
EndReturns_awaitsMetric(r) ==
  /\ pc = "awaitEnd"
  /\ resp' = Append(resp, r)
  /\ connection' = "ended"
  /\ CASE r = "fail" -> HandlerCatch("EndError", <<>>)
       [] r = "ok" /\ pendingErr /= "none" -> HandlerCatch(pendingErr, <<>>)
       [] r = "ok" /\ pendingErr = "none" ->
            \/ /\ emitted' = emitted \o <<"EmailsSent">>
               /\ cb' = cb \o <<"ok">>
               /\ outcome' = "Success"
               /\ pc' = "done"
            \/ /\ emitted' = emitted \o <<"EmailsSent", "GeneralError">>
               /\ cb' = cb \o <<"err", "pending">>
               /\ outcome' = "MetricError"
               /\ pc' = "done"
  /\ pendingErr' = "none"
  /\ UNCHANGED << env, event, apiKey, calls, sent, execParams, userTable,
                  invocations, sendsOk, updatesOk, deliveries, eventSends, prev >>

\* Lines 161, 93-102: connection.end() settles; the error in flight (or the
\* rejection of end itself) reaches the handler's catch, otherwise the
\* handler emits EmailsSent and returns {status: 'Success'}.
EndReturns(r) ==
  /\ pc = "awaitEnd"
  /\ resp' = Append(resp, r)
  /\ connection' = "ended"
  /\ HandlerFinish(IF r = "fail" THEN "EndError" ELSE pendingErr, <<>>)
  /\ pendingErr' = "none"
  /\ UNCHANGED << env, event, apiKey, calls, sent, execParams, userTable,
                  invocations, sendsOk, updatesOk, deliveries, eventSends, prev >>

\* Lines 27-33: the callback of the i-th putMetricData of this invocation
\* runs; it only writes to the console.
putMetricDataCallback(i, err) ==
  /\ cb[i] = "pending"
  /\ cb' = [cb EXCEPT ![i] = IF err THEN "err" ELSE "ok"]
  /\ UNCHANGED << env, event, pc, apiKey, calls, resp, sent, execParams,
                  emitted, connection, pendingErr, outcome, userTable,
                  invocations, sendsOk, updatesOk, deliveries, eventSends, prev >>

\* The steps of one invocation.
Step ==
  \/ ValidateEnv
  \/ \E r \in SecretResults : EmailSecretReturns(r)
  \/ \E r \in {"ok", "fail"} : SendReturns(r)
  \/ \E r \in SecretResults : DbSecretReturns(r)
  \/ \E r \in {"ok", "fail"} : ConnectReturns(r)
  \/ \E r \in {"throw", "result"} : ExecuteReturns(r)
  \/ \E r \in {"ok", "fail"} : EndReturns(r)
  \/ \E i \in DOMAIN cb, err \in BOOLEAN : putMetricDataCallback(i, err)

Next ==
  \/ \E ev \in Events : Deliver(ev)
  \/ Redeliver
  \/ Step

Spec == Init /\ [][Next]_vars

----------------------------------------------------------------------------
\* A pair of runs on the same event: the first is summarised in prev when
\* the second is entered, so that the two can be compared.

First(ev) ==
  /\ pc = "idle"
  /\ Enter(ev)
  /\ deliveries' = 1
  /\ eventSends' = 0
  /\ UNCHANGED prev

Second ==
  /\ pc = "done"
  /\ ~prev.valid
  /\ Enter(event)
  /\ prev' = [ valid |-> TRUE, calls |-> calls, resp |-> resp,
               outcome |-> outcome, cb |-> cb ]
  /\ deliveries' = deliveries + 1
  /\ UNCHANGED eventSends

NextPair ==
  \/ \E ev \in Events : First(ev)
  \/ Second
  \/ Step

SpecPair == Init /\ [][NextPair]_vars

----------------------------------------------------------------------------
\* Vocabulary of the properties.

Called(label) == \E i \in DOMAIN calls : calls[i] = label
Idx(label) == CHOOSE i \in DOMAIN calls : calls[i] = label
Count(seq, x) == Cardinality({ i \in DOMAIN seq : seq[i] = x })
\* The response to the call `label`; "none" before the call or its answer.
RespOf(label) ==
  IF Called(label) /\ Idx(label) <= Len(resp) THEN resp[Idx(label)] ELSE "none"
Contains(s, sub) ==
  \E i \in 0..(Len(s) - Len(sub)) : SubSeq(s, i + 1, i + Len(sub)) = sub
IsPrefix(s, t) == Len(s) <= Len(t) /\ s = SubSeq(t, 1, Len(s))

ConfigMissing == \E v \in EnvNames : Falsy(env[v])
ValidPayload == event.parses /\ event.message.userId /= Undefined
Thrown == outcome \notin {"none", "Success"}
\* Responses that are a failure of the step they answer.
Failures == {"reject", "badjson", "null", "fail", "throw", "rows0"}
\* The calls of a run in which everything works, and their responses.
FullOrder == << "getSecret.email", "send", "getSecret.db", "connect", "execute", "end" >>
FullResp == << "object", "ok", "object", "ok", "rows", "ok" >>

\* One send to the event's address with the link in both bodies, one UPDATE
\* bound to the event's userId, one EmailsSent, and Success.
SuccessShape ==
  /\ Len(sent) = 1 /\ Count(calls, "send") = 1
  /\ sent[1].to = event.message.email
  /\ Contains(sent[1].text, event.message.activationLink)
  /\ Contains(sent[1].html, event.message.activationLink)
  /\ Count(calls, "execute") = 1
  /\ execParams = << <<event.message.userId>> >>
  /\ Count(emitted, "EmailsSent") = 1
  /\ outcome = "Success"

----------------------------------------------------------------------------
\* C1: when sgMail.send fails, no connection is opened and no UPDATE is
\* executed in that invocation; a connection or an UPDATE is attempted only
\* after the send of the same invocation has succeeded.
C1_SendThenRecord ==
  /\ RespOf("send") = "fail" =>
       /\ ~Called("getSecret.db") /\ ~Called("connect") /\ ~Called("execute")
       /\ connection = Undefined /\ execParams = <<>>
  /\ \A l \in {"connect", "execute"} :
       Called(l) => /\ RespOf("send") = "ok"
                    /\ Idx("send") < Idx(l)

C1_Witness == pc = "done" /\ RespOf("send") = "fail" /\ Thrown

\* C2: with a required configuration value unset or empty the handler throws
\* the configuration error and makes no secret retrieval, no send and no
\* database call.
C2_MissingConfigNoSideEffects ==
  ConfigMissing /\ pc /= "idle" =>
    /\ calls = <<>> /\ sent = <<>> /\ execParams = <<>>
    /\ connection = Undefined
    /\ pc \in {"start", "done"}
    /\ pc = "done" => outcome = "EnvNotSet"

C2_Witness ==
  /\ pc = "done" /\ outcome = "EnvNotSet"
  /\ \E v \in EnvNames : env[v] = ""

\* C3 as stated: for a valid payload, a run in which every external call
\* succeeds (the secrets being JSON objects) has the shape of a success.
C3_Original ==
  ( /\ pc = "done" /\ ~ConfigMissing /\ ValidPayload
    /\ Len(resp) = Len(calls)
    /\ \A i \in DOMAIN resp : resp[i] \in {"object", "ok", "rows0", "rows"} )
  => SuccessShape

\* C3 amended: for a valid payload, a run in which every external call
\* succeeds, both secrets are JSON objects and the UPDATE affects at least
\* one row has the shape of a success.
C3_SuccessfulRun ==
  ( pc = "done" /\ ValidPayload /\ resp = FullResp ) => SuccessShape

C3_Witness ==
  /\ pc = "done" /\ resp = FullResp /\ outcome = "Success"
  /\ \E i \in DOMAIN event.message.activationLink :
       event.message.activationLink[i] = "&"

\* C4: with userId missing from the payload the handler throws before any
\* external call: no secret retrieval, no send, no database call.
C4_MissingUserIdNoExternalCall ==
  ( pc /= "idle" /\ event.parses /\ event.message.userId = Undefined )
  => /\ calls = <<>> /\ sent = <<>> /\ execParams = <<>>
     /\ pc = "done" => Thrown

\* C5: an invocation opens at most one connection and executes at most one
\* statement; when the handler has returned or thrown, connection.end() has
\* been called on the connection it opened, whatever the UPDATE did.
C5_ConnectionReleased ==
  /\ Count(calls, "connect") <= 1
  /\ Count(calls, "execute") <= 1
  /\ Count(calls, "end") <= 1
  /\ pc = "done" =>
       /\ connection /= "open"
       /\ (RespOf("connect") = "ok") <=> Called("end")
  /\ Called("end") => Called("execute") /\ Idx("execute") < Idx("end")

C5_Witness ==
  /\ pc = "done" /\ RespOf("execute") = "throw"
  /\ Called("end") /\ connection = "ended"

\* C6: an UPDATE that affects zero rows fails the invocation: the handler
\* throws, does not return Success and does not emit EmailsSent.
C6_ZeroRowsIsFailure ==
  RespOf("execute") = "rows0" =>
    /\ outcome /= "Success"
    /\ Count(emitted, "EmailsSent") = 0
    /\ pc = "done" => outcome \in {"NoUserFound", "EndError"}

C6_Witness ==
  /\ pc = "done" /\ RespOf("execute") = "rows0" /\ outcome = "NoUserFound"
  /\ event.message.userId \in UserIds

\* C7: a failure of any step is the last step of the invocation (but for
\* closing the connection) and the handler throws; Success is returned only
\* when both secrets were retrieved, the payload parsed, the send, the
\* connect and the UPDATE (of at least one row) succeeded.
C7_FailuresPropagate ==
  /\ \A i \in DOMAIN resp :
       resp[i] \in Failures =>
         /\ \/ Len(calls) = i
            \/ calls[i] = "execute" /\ Len(calls) = i + 1 /\ calls[i + 1] = "end"
         /\ outcome /= "Success"
         /\ Count(emitted, "EmailsSent") = 0
         /\ pc = "done" => Thrown
  /\ (pc /= "idle" /\ ~event.parses) =>
       /\ ~Called("send")
       /\ outcome /= "Success"
       /\ pc = "done" => Thrown
  /\ outcome = "Success" =>
       /\ event.parses
       /\ calls = FullOrder
       /\ SubSeq(resp, 1, 5) = SubSeq(FullResp, 1, 5)
  /\ pc = "done" => outcome /= "none"

C7_Witness ==
  /\ pc = "done" /\ RespOf("connect") = "fail" /\ outcome = "ConnectError"
  /\ calls = SubSeq(FullOrder, 1, 4)

C9_MetricsDoNotInterfere ==
  ( prev.valid /\ pc = "done" /\ resp = prev.resp ) =>
    /\ calls = prev.calls
    /\ outcome = prev.outcome
    /\ Len(cb) = Len(prev.cb)

C9_Witness ==
  /\ prev.valid /\ pc = "done" /\ resp = prev.resp /\ outcome = "Success"
  /\ \E i \in DOMAIN cb : prev.cb[i] = "err" /\ cb[i] = "pending"

\* C10: nothing is deduplicated: every invocation that got the email secret
\* and parsed its payload sends, however often the event was delivered
\* before; and no userId has more successful UPDATEs than successful sends.
C10_NoDeduplication ==
  /\ ( Len(resp) >= 1 /\ resp[1] = "object" /\ event.parses ) =>
       /\ Len(calls) >= 2 /\ calls[2] = "send"
       /\ Len(sent) = 1
  /\ \A u \in UserIds : updatesOk[u] <= sendsOk[u]
  /\ eventSends <= deliveries

C10_Witness ==
  /\ deliveries >= 2 /\ eventSends = deliveries
  /\ pc = "done" /\ Thrown
  /\ ValidPayload /\ updatesOk[event.message.userId] = 0

====
